---- MODULE Spec2Model ----
(***************************************************************************)
(* A state-machine model of the three independent programs of the          *)
(* repository:                                                             *)
(*   "hv"  : src/02 Noise and HVSR/Auto_process_HV.py  (HVSR batch driver) *)
(*   "rf"  : the same file, one call read_files(directory) step by step    *)
(*   "das" : src/04 DAS/custom_util.py                 (apply_mapping)     *)
(*   "roof", "axes" : src/05 StructuralHealth/.../functions_MA.py          *)
(*           (callers of roof_edges2D and of set_axes_equal)               *)
(* The variable prog says which program a behaviour runs; the variables of *)
(* the others stay at their idle values.                                   *)
(*                                                                         *)
(* Python sequences are 0-based, TLA+ sequences 1-based: Python index k is *)
(* position k + 1 here.  Strings that the code indexes or splits are       *)
(* sequences of one-character strings.                                     *)
(***************************************************************************)
EXTENDS Integers, Sequences, FiniteSets, TLC

VARIABLES
    prog,            \* which program runs: "hv", "rf", "das", "roof" or "axes"
    \* ---- Auto_process_HV.py ----
    process_len,     \* options.process_len, whole seconds
    want_rotation,   \* options.want_rotation
    listing,         \* os.listdir(directory): the set of file names in Raw_Data
    files,           \* files = read_files(directory)
    fileIdx,         \* position of the top-level for loop in files
    node_ID,         \* global node_ID of the current iteration
    pc,              \* "main", "run_HV", "done" (fell off the script) or "crashed"
    stdout,          \* the messages printed that the model tracks
    attempted,       \* history: the patterns run_HV was called with, in order
    st,              \* the trace read by run_HV: station, start, end (ticks)
    times,           \* np.arange(start, end, process_len)
    winIdx,          \* position of run_HV's for loop in times
    params,          \* content of geopsy-hv-auto.params: tStart, tEnd
    disk,            \* the output folder: file name -> content
    windowsRun,      \* history of the current run_HV call: one record per completed window
    \* ---- Auto_process_HV.py, read_files ----
    rf_listing,      \* os.listdir(directory), in the order the call enumerates it
    rf_k,            \* the number of file names the for loop has taken
    rf_files,        \* the local list files
    rf_tracebacks,   \* history: the file names a traceback was printed for
    rf_pc,           \* "loop", "unique" or "returned"
    rf_result,       \* the value returned
    \* ---- custom_util.py, apply_mapping ----
    segments_filename,     \* the argument ("good_segments.txt" when not given)
    segfiles,              \* the segment files on disk: file name -> table of rows
    loaded_from,           \* history: the file name np.loadtxt was called with
    segment,               \* the table read: a sequence of rows x1, y1, d1, x2, y2, d2
    channels_dd_original,  \* da.coords['distance'].values
    dpc,                   \* "load", "ties", "stitch", "coords", "done" or "raised"
    i,                     \* the loop variable (a Python index, from 0)
    icount,
    tie_indices,
    tie_distances,
    tie_lat,
    tie_lon,
    mapped_ranges,         \* sequence of <<i1, i2>>
    slices,                \* history: the raw channels of da[:, i0:i1] of each range
    da2,                   \* the raw channel of every channel of the stitched array
    \* ---- functions_MA.py ----
    edges_of,        \* history: arguments of a roof_edges2D call -> the array returned
    ax,              \* the axis set_axes_equal is given: its xlim, ylim and zlim
    axHist           \* history: ax at the start and after every set_axes_equal call

hvVars == <<process_len, want_rotation, listing, files, fileIdx, node_ID, pc,
            stdout, attempted, st, times, winIdx, params, disk, windowsRun>>

dasVars == <<segments_filename, segfiles, loaded_from, segment, channels_dd_original,
             dpc, i, icount, tie_indices, tie_distances, tie_lat, tie_lon,
             mapped_ranges, slices, da2>>

maVars == <<edges_of, ax, axHist>>

rfVars == <<rf_listing, rf_k, rf_files, rf_tracebacks, rf_pc, rf_result>>

vars == <<prog, hvVars, dasVars, maVars, rfVars>>

(***************************************************************************)
(* Bounds of the model.                                                    *)
(***************************************************************************)
TicksPerSec == 2      \* resolution of time: a tick is 1/TicksPerSec second
MaxProcLen == 2       \* process_len ranges over 1..MaxProcLen and the default
MaxSpan == 5          \* stream lengths end - start range over 0..MaxSpan ticks ...
MaxWindows == 3       \* ... and over the two-hour stream, while they give <= MaxWindows windows
MaxSegs == 3          \* a segment file has 1..MaxSegs rows
MaxDist == 3          \* segment distances range over 0..MaxDist
MaxMult == 2          \* roof_edges2D is called with mult in 1..MaxMult
MantissaBits == 3     \* significant bits of the floating-point numbers of set_axes_equal
MaxLim == 4           \* axis limits range over Grid * (-MaxLim..MaxLim)
MaxApply == 2         \* set_axes_equal is applied at most MaxApply times to an axis

Max(a, b) == IF a >= b THEN a ELSE b
Min(a, b) == IF a <= b THEN a ELSE b
Abs(a) == IF a >= 0 THEN a ELSE -a

(***************************************************************************)
(* Characters and strings.                                                 *)
(***************************************************************************)
\* The characters of the file names of the model, in code-point order
\* (np.unique sorts str arrays by code point).
CodeOrder == <<"*", ".", "0", "B", "C", "E", "H", "M", "S", "U", "Z", "_">>

Code(c) == CHOOSE k \in 1..Len(CodeOrder) : CodeOrder[k] = c

RECURSIVE LexLess(_, _)
LexLess(a, b) ==
    IF b = <<>> THEN FALSE
    ELSE IF a = <<>> THEN TRUE
    ELSE IF Head(a) # Head(b) THEN Code(Head(a)) < Code(Head(b))
    ELSE LexLess(Tail(a), Tail(b))

\* np.unique(files): the sorted list of the distinct elements
RECURSIVE SortedSeq(_)
SortedSeq(S) ==
    IF S = {} THEN <<>>
    ELSE LET m == CHOOSE x \in S : \A y \in S \ {x} : LexLess(x, y)
         IN  <<m>> \o SortedSeq(S \ {m})

np_unique(S) == SortedSeq(S)

\* s.split('.')
RECURSIVE SplitDot(_)
SplitDot(s) ==
    IF \A k \in 1..Len(s) : s[k] # "."
    THEN <<s>>
    ELSE LET k == CHOOSE j \in 1..Len(s) : s[j] = "." /\ \A h \in 1..(j - 1) : s[h] # "."
         IN  <<SubSeq(s, 1, k - 1)>> \o SplitDot(SubSeq(s, k + 1, Len(s)))

(***************************************************************************)
(* read_files (the second, active definition).                             *)
(***************************************************************************)
WildcardIndex == 13

\* the elements of a list
SeqElems(s) == {s[k] : k \in 1..Len(s)}

\* the orders in which the names of a directory can be listed
RECURSIVE Perms(_)
Perms(S) ==
    IF S = {} THEN {<<>>}
    ELSE UNION {{<<x>> \o q : q \in Perms(S \ {x})} : x \in S}

\* l = list(filename); l[13] = '*' raises IndexError for a name shorter than 14
SetItemRaises(filename) == Len(filename) < WildcardIndex + 1

\* the wildcard put one character too early
basefile_OffByOne(filename) == [filename EXCEPT ![WildcardIndex] = "*"]

basefile(filename) == [filename EXCEPT ![WildcardIndex + 1] = "*"]

read_files(dir) == np_unique({basefile(f) : f \in {g \in dir : ~SetItemRaises(g)}})

(***************************************************************************)
(* The file names a directory of the model may hold.                       *)
(***************************************************************************)
Name_UCCS_Z == <<"B","E",".","U","C","C","S",".","0","0",".","H","H","Z">>
Name_UCCS_E == <<"B","E",".","U","C","C","S",".","0","0",".","H","H","E">>
Name_MEMB_Z == <<"B","E",".","M","E","M","B",".","0","0",".","H","H","Z">>
Name_NoDot  == <<"B","E","_","U","C","C","S","_","0","0","_","H","H","Z">>
Name_Short  == <<"B","E",".","H","H","Z">>

FilePool == {Name_UCCS_Z, Name_UCCS_E, Name_MEMB_Z, Name_NoDot, Name_Short}

(***************************************************************************)
(* Top-level loop: node_ID = str(os.path.split(file)).split('.')[1]        *)
(***************************************************************************)
\* str(os.path.split(file)) of a name without a directory part: "('', '<file>')"
StrOfSplit(file) == <<"(", "'", "'", ",", " ", "'">> \o file \o <<"'", ")">>

NodeIdRaises(file) == Len(SplitDot(StrOfSplit(file))) < 2

NodeIdOf(file) == SplitDot(StrOfSplit(file))[2]

(***************************************************************************)
(* run_HV                                                                  *)
(***************************************************************************)
DefaultProcessLen == 3600

ProcLens == (1..MaxProcLen) \cup {DefaultProcessLen}

\* the stream lengths of the model, in ticks: short ones and exactly two hours
SpanPool == (0..MaxSpan) \cup {2 * DefaultProcessLen * TicksPerSec}

\* stream start times, in ticks: on a whole second, between two seconds,
\* and just before the minute and the hour roll over
StartPool == {0, 59 * TicksPerSec + 1, 3599 * TicksPerSec}

StationPool == {"BE_UCCS"}

NoStream == [station |-> "", start |-> 0, end |-> 0]

\* ceil(a / b) for a >= 0, b > 0
CeilDiv(a, b) == (a + b - 1) \div b

\* a window count that drops the final partial window, as the message printed at
\* line 55 computes it: int(delta / process_len)
ArangeLen_Floor(start, stop, step) == Max(0, (stop - start) \div step)

\* numpy's length of arange(start, stop, step): ceil((stop - start) / step), at least 0
ArangeLen(start, stop, step) == Max(0, CeilDiv(stop - start, step))

\* np.arange(start, end, process_len): element k (from 0) is start + k * step
np_arange(start, stop, step) ==
    [k \in 1..ArangeLen(start, stop, step) |-> start + (k - 1) * step]

\* a file-name stamp whose format string leaves the hour out
StampOf_NoHour(t) ==
    LET whole == t \div TicksPerSec
    IN  [day    |-> whole \div 86400,
         hour   |-> 0,
         minute |-> (whole \div 60) % 60,
         second |-> whole % 60]

\* '%s%02d%02d%02d%02d%#02d' % (year, month, day, hour, minute, second): the fields
\* of a time given in ticks; the date fields are one day number, and second is the
\* whole second (UTCDateTime.second is an int)
StampOf(t) ==
    LET whole == t \div TicksPerSec
    IN  [day    |-> whole \div 86400,
         hour   |-> (whole \div 3600) % 24,
         minute |-> (whole \div 60) % 60,
         second |-> whole % 60]

NoStamp == [day |-> -1, hour |-> -1, minute |-> -1, second |-> -1]

\* os.path.join(output_folder, '{0}/{1}.{2}.hv'.format(node_ID, station, tStart_hv))
OutName(node, station, stamp, ext) ==
    [dir |-> node, base |-> station, stamp |-> stamp, ext |-> ext]

\* the tool's own output name, '{0}/{1}.hv'
ToolName(node, station, ext) == OutName(node, station, NoStamp, ext)

WriteFile(d, name, content) ==
    [n \in DOMAIN d \cup {name} |-> IF n = name THEN content ELSE d[n]]

\* os.renames(old, new) raises when old does not exist; an existing new is
\* replaced (POSIX rename)
RenameRaises(d, old) == old \notin DOMAIN d

Rename(d, old, new) ==
    [n \in (DOMAIN d \ {old}) \cup {new} |-> IF n = new THEN d[old] ELSE d[n]]

Content(call, win, kind) == [call |-> call, win |-> win, kind |-> kind]

EmptyDisk == [n \in {} |-> Content(0, 0, "")]

NoParams == [tStart |-> NoStamp, tEnd |-> NoStamp]

(***************************************************************************)
(* apply_mapping                                                           *)
(***************************************************************************)
GoodSegments == "good_segments.txt"
OtherSegments == "other_segments.txt"

\* np.loadtxt(name) with the default ndmin=0 squeezes axes of length one: a file of
\* one row is returned as a 1-D array of its 6 numbers, a file of two or more rows
\* as a 2-D array
np_loadtxt(fs, name) ==
    [ndim |-> IF Len(fs[name]) = 1 THEN 1 ELSE 2, rows |-> fs[name]]

\* tmp[:,0] (line 12) raises IndexError (too many indices) for a 1-D array
ColumnIndexRaises(tmp) == tmp.ndim < 2

\* np.argmin(np.abs(c - d)): the first (0-based) index of a nearest channel
np_argmin_abs(c, d) ==
    CHOOSE k \in 0..(Len(c) - 1) :
        \A j \in 0..(Len(c) - 1) :
            \/ Abs(c[k + 1] - d) < Abs(c[j + 1] - d)
            \/ Abs(c[k + 1] - d) = Abs(c[j + 1] - d) /\ k <= j

\* the raw channels of da[:, a:b] for an array of n channels, 0 <= a, 0 <= b
PySlice(n, a, b) == [k \in 1..Max(0, Min(b, n) - a) |-> a + k - 1]

\* line 45: segment['d2'][i] != segment['d1'][i+1], for the Python index k
DistanceGap(seg, k) == seg[k + 1].d2 # seg[k + 2].d1

\* lines 63-69: the upper bound of the slice of range k (a Python index)
SliceUpper(ranges, k) ==
    IF k < Len(ranges) - 1
    THEN IF ranges[k + 1][2] # ranges[k + 2][1]
         THEN ranges[k + 1][2] + 1
         ELSE ranges[k + 1][2]
    ELSE ranges[k + 1][2] + 1

\* The rows of the segment files of the model: a row from distance a to distance
\* b >= a; its coordinates are fixed by its distances.
LonOf(d) == 100 + d
LatOf(d) == 200 + d

Row(a, b) == [x1 |-> LonOf(a), y1 |-> LatOf(a), d1 |-> a,
              x2 |-> LonOf(b), y2 |-> LatOf(b), d2 |-> b]

Rows == {Row(p[1], p[2]) : p \in {q \in (0..MaxDist) \X (0..MaxDist) : q[1] <= q[2]}}

\* the segment files of the model: 1..MaxSegs rows in the order of their start distances
SegTables ==
    UNION {{t \in [1..n -> Rows] : \A k \in 1..(n - 1) : t[k].d1 <= t[k + 1].d1} :
           n \in 1..MaxSegs}

\* the table of the other segment file on disk
OtherTable == <<Row(0, MaxDist)>>

\* native distance coordinates: one channel per unit of distance; one channel every
\* two units; two channels at distance 0
UnitCoords == [k \in 1..(MaxDist + 1) |-> k - 1]
CoarseCoords == [k \in 1..((MaxDist \div 2) + 1) |-> 2 * (k - 1)]
DupCoords == <<0>> \o UnitCoords

CoordPool == {UnitCoords, CoarseCoords, DupCoords}

\* the example of a single segment that maps to the raw channels [10, 50]
LongCoords == [k \in 1..60 |-> k - 1]
LongTable == <<Row(10, 50)>>

(***************************************************************************)
(* roof_edges2D.  Coordinates are in millimetres (the literals of the      *)
(* source have three decimals), so the arithmetic is that of the integers. *)
(***************************************************************************)
Lon0 == 681437800
Lat0 == 248919200

\* arguments taken in the order of roof_edges3D: (mult, Lon, Lat)
roof_edges2D_LonLat(mult, Lat, Lon) ==
    LET offsetLon == Lon0 - Lat
        offsetLat == Lat0 - Lon
    IN  << <<(681443103 - offsetLon) * mult, (248954576 - offsetLat) * mult>>,
           <<(681429922 - offsetLon) * mult, (248934161 - offsetLat) * mult>>,
           <<(681431376 - offsetLon) * mult, (248912610 - offsetLat) * mult>>,
           <<(681426233 - offsetLon) * mult, (248895830 - offsetLat) * mult>>,
           <<(681447497 - offsetLon) * mult, (248889417 - offsetLat) * mult>>,
           <<(681460536 - offsetLon) * mult, (248909601 - offsetLat) * mult>>,
           <<(681459040 - offsetLon) * mult, (248927087 - offsetLat) * mult>>,
           <<(681462783 - offsetLon) * mult, (248942503 - offsetLat) * mult>> >>

roof_edges2D(mult, Lat, Lon) ==
    LET offsetLon == Lon0 - Lon
        offsetLat == Lat0 - Lat
        NLon == (681443103 - offsetLon) * mult
        NLat == (248954576 - offsetLat) * mult
        ELon == (681462783 - offsetLon) * mult
        ELat == (248942503 - offsetLat) * mult
        E_1 == (681429922 - offsetLon) * mult
        N_1 == (248934161 - offsetLat) * mult
        E_2 == (681431376 - offsetLon) * mult
        N_2 == (248912610 - offsetLat) * mult
        WLon == (681426233 - offsetLon) * mult
        WLat == (248895830 - offsetLat) * mult
        SLon == (681447497 - offsetLon) * mult
        SLat == (248889417 - offsetLat) * mult
        E_5 == (681460536 - offsetLon) * mult
        N_5 == (248909601 - offsetLat) * mult
        E_6 == (681459040 - offsetLon) * mult
        N_6 == (248927087 - offsetLat) * mult
    IN  << <<NLon, NLat>>, <<E_1, N_1>>, <<E_2, N_2>>, <<WLon, WLat>>,
           <<SLon, SLat>>, <<E_5, N_5>>, <<E_6, N_6>>, <<ELon, ELat>> >>

\* the origins (Lat, Lon) roof_edges2D is called with: the default, the hard-coded
\* origin, and one more
OriginPool == {<<0, 0>>, <<Lat0, Lon0>>, <<1000, 2000>>}

RoofArgs == {[mult |-> m, Lat |-> o[1], Lon |-> o[2]] : m \in 1..MaxMult, o \in OriginPool}

NoEdges == [a \in {} |-> <<>>]

(***************************************************************************)
(* set_axes_equal.  Axis limits are binary floating-point numbers: here    *)
(* integers (multiples of the smallest limit spacing) of which the         *)
(* arithmetic keeps MantissaBits significant bits, rounding to nearest,    *)
(* ties to even.                                                           *)
(***************************************************************************)
RECURSIVE Pow2(_)
Pow2(n) == IF n = 0 THEN 1 ELSE 2 * Pow2(n - 1)

\* the spacing of the numbers of magnitude a: the least power of two q >= start
\* with a < 2^MantissaBits * q
RECURSIVE Quantum(_, _)
Quantum(a, q) == IF a < Pow2(MantissaBits) * q THEN q ELSE Quantum(a, 2 * q)

\* the floating-point number nearest to x
fl(x) ==
    LET a == Abs(x)
        q == Quantum(a, 1)
        m == a \div q
        r == a % q
        v == (IF 2 * r > q \/ (2 * r = q /\ m % 2 = 1) THEN m + 1 ELSE m) * q
    IN  IF x >= 0 THEN v ELSE -v

\* 0.5 * x and x / 2 are exact in binary floating point; every number halved here
\* is even
Half(x) == x \div 2

\* np.mean(limits) of a pair: the rounded sum, divided by 2
np_mean(lim) == Half(fl(lim[1] + lim[2]))

\* a radius of half the smaller range
PlotRadius_Min(x_range, y_range) == Half(Min(x_range, y_range))

\* plot_radius = 0.5 * max([x_range, y_range])
PlotRadius(x_range, y_range) == Half(Max(x_range, y_range))

\* the axis after set_axes_equal(a) (lines 68-82); zlim is not touched
set_axes_equal(a) ==
    LET x_limits == a.xlim
        y_limits == a.ylim
        x_range == Abs(fl(x_limits[2] - x_limits[1]))
        x_middle == np_mean(x_limits)
        y_range == Abs(fl(y_limits[2] - y_limits[1]))
        y_middle == np_mean(y_limits)
        plot_radius == PlotRadius(x_range, y_range)
    IN  [a EXCEPT !.xlim = <<fl(x_middle - plot_radius), fl(x_middle + plot_radius)>>,
                  !.ylim = <<fl(y_middle - plot_radius), fl(y_middle + plot_radius)>>]

\* the limits of the axes of the model: floating-point numbers on a grid fine
\* enough for MaxApply halvings
Grid == Pow2(MaxApply)

LimPool == {v \in {Grid * k : k \in (-MaxLim)..MaxLim} : fl(v) = v}

\* an axis never has equal lower and upper limits: the plotting library replaces
\* them when they are set
Singular(lim) == lim[1] = lim[2]

NoAxis == [xlim |-> <<0, 1>>, ylim |-> <<0, 1>>, zlim |-> <<0, 1>>]

(***************************************************************************)
(* Initial states.                                                         *)
(***************************************************************************)
HvIdle ==
    /\ process_len = DefaultProcessLen
    /\ want_rotation = FALSE
    /\ listing = {}
    /\ files = <<>>
    /\ fileIdx = 1
    /\ node_ID = <<>>
    /\ pc = "idle"
    /\ stdout = <<>>
    /\ attempted = <<>>
    /\ st = NoStream
    /\ times = <<>>
    /\ winIdx = 1
    /\ params = NoParams
    /\ disk = EmptyDisk
    /\ windowsRun = <<>>

\* the state when the top-level for loop is reached: options parsed, files read
HvInit ==
    /\ process_len \in ProcLens
    /\ want_rotation \in BOOLEAN
    /\ listing \in SUBSET FilePool
    /\ files = read_files(listing)
    /\ fileIdx = 1
    /\ node_ID = <<>>
    /\ pc = "main"
    /\ stdout = <<>>
    /\ attempted = <<>>
    /\ st = NoStream
    /\ times = <<>>
    /\ winIdx = 1
    /\ params = NoParams
    /\ disk = EmptyDisk
    /\ windowsRun = <<>>

DasStart ==
    /\ loaded_from = ""
    /\ segment = <<>>
    /\ dpc = "load"
    /\ i = 0
    /\ icount = 0
    /\ tie_indices = <<>>
    /\ tie_distances = <<>>
    /\ tie_lat = <<>>
    /\ tie_lon = <<>>
    /\ mapped_ranges = <<>>
    /\ slices = <<>>
    /\ da2 = <<>>

DasIdle ==
    /\ segments_filename = GoodSegments
    /\ segfiles = [f \in {GoodSegments, OtherSegments} |-> OtherTable]
    /\ channels_dd_original = <<0>>
    /\ DasStart

\* apply_mapping(da, segments_filename) is called
DasInit ==
    /\ segments_filename \in {GoodSegments, OtherSegments}
    /\ \/ \E t \in SegTables :
             /\ segfiles = [f \in {GoodSegments, OtherSegments} |->
                               IF f = GoodSegments THEN t ELSE OtherTable]
             /\ channels_dd_original \in CoordPool
       \/ /\ segfiles = [f \in {GoodSegments, OtherSegments} |->
                            IF f = GoodSegments THEN LongTable ELSE OtherTable]
          /\ channels_dd_original = LongCoords
    /\ DasStart

RfIdle ==
    /\ rf_listing = <<>>
    /\ rf_k = 0
    /\ rf_files = <<>>
    /\ rf_tracebacks = <<>>
    /\ rf_pc = "idle"
    /\ rf_result = <<>>

\* read_files(directory) is called: line 234, and os.listdir in some order
RfInit ==
    /\ rf_listing \in UNION {Perms(d) : d \in SUBSET FilePool}
    /\ rf_k = 0
    /\ rf_files = <<>>
    /\ rf_tracebacks = <<>>
    /\ rf_pc = "loop"
    /\ rf_result = <<>>

RoofIdle == edges_of = NoEdges

AxesIdle == ax = NoAxis /\ axHist = <<>>

\* an axis with any non-singular limits, inverted ones included
AxesInit ==
    /\ \E x0 \in LimPool, x1 \in LimPool, y0 \in LimPool, y1 \in LimPool :
          /\ x0 # x1 /\ y0 # y1
          /\ ax = [xlim |-> <<x0, x1>>, ylim |-> <<y0, y1>>, zlim |-> <<0, 1>>]
    /\ axHist = <<ax>>

Init ==
    \/ prog = "hv" /\ HvInit /\ DasIdle /\ RoofIdle /\ AxesIdle /\ RfIdle
    \/ prog = "das" /\ HvIdle /\ DasInit /\ RoofIdle /\ AxesIdle /\ RfIdle
    \/ prog = "roof" /\ HvIdle /\ DasIdle /\ RoofIdle /\ AxesIdle /\ RfIdle
    \/ prog = "axes" /\ HvIdle /\ DasIdle /\ RoofIdle /\ AxesInit /\ RfIdle
    \/ prog = "rf" /\ HvIdle /\ DasIdle /\ RoofIdle /\ AxesIdle /\ RfInit

(***************************************************************************)
(* Actions of Auto_process_HV.py                                           *)
(***************************************************************************)
\* line 268 raises IndexError outside the try: the script ends with a traceback
ForFile_NodeIdRaises ==
    /\ prog = "hv" /\ pc = "main" /\ fileIdx <= Len(files)
    /\ NodeIdRaises(files[fileIdx])
    /\ pc' = "crashed"
    /\ UNCHANGED <<prog, dasVars, maVars, rfVars, process_len, want_rotation, listing, files, fileIdx,
                   node_ID, stdout, attempted, st, times, winIdx, params, disk, windowsRun>>

\* run_HV(wf) is called and read(wf) raises: except: continue
ForFile_ReadRaises ==
    /\ prog = "hv" /\ pc = "main" /\ fileIdx <= Len(files)
    /\ ~NodeIdRaises(files[fileIdx])
    /\ node_ID' = NodeIdOf(files[fileIdx])
    /\ attempted' = Append(attempted, files[fileIdx])
    /\ fileIdx' = fileIdx + 1
    /\ UNCHANGED <<prog, dasVars, maVars, rfVars, process_len, want_rotation, listing, files, pc,
                   stdout, st, times, winIdx, params, disk, windowsRun>>

\* run_HV(wf) is called, read(wf) gives a stream: lines 45-58
ForFile_RunHV ==
    /\ prog = "hv" /\ pc = "main" /\ fileIdx <= Len(files)
    /\ ~NodeIdRaises(files[fileIdx])
    /\ \E station \in StationPool, start \in StartPool, span \in SpanPool :
          /\ ArangeLen(start, start + span, process_len * TicksPerSec) <= MaxWindows
          /\ st' = [station |-> station, start |-> start, end |-> start + span]
          /\ times' = np_arange(start, start + span, process_len * TicksPerSec)
    /\ node_ID' = NodeIdOf(files[fileIdx])
    /\ attempted' = Append(attempted, files[fileIdx])
    /\ winIdx' = 1
    /\ windowsRun' = <<>>
    /\ pc' = "run_HV"
    /\ UNCHANGED <<prog, dasVars, maVars, rfVars, process_len, want_rotation, listing, files, fileIdx,
                   stdout, params, disk>>

\* the state of the output folder after the -hv pass of one window (lines 100-106)
AfterHv(d, call, win, stamp) ==
    LET d1 == WriteFile(WriteFile(d, ToolName(node_ID, st.station, "hv"),
                                  Content(call, win, "hv")),
                        ToolName(node_ID, st.station, "log"), Content(call, win, "log"))
        d2 == Rename(d1, ToolName(node_ID, st.station, "hv"),
                     OutName(node_ID, st.station, stamp, "hv"))
    IN  Rename(d2, ToolName(node_ID, st.station, "log"),
               OutName(node_ID, st.station, stamp, "log"))

\* the state of the output folder after the -rotate pass (lines 113-116)
AfterRotate(d, call, win, stamp) ==
    Rename(WriteFile(d, ToolName(node_ID, st.station, "hv"), Content(call, win, "grid")),
           ToolName(node_ID, st.station, "hv"),
           OutName(node_ID, st.station, stamp, "hv.grid"))

WindowParams(time) ==
    [tStart |-> StampOf(time), tEnd |-> StampOf(time + process_len * TicksPerSec)]

WindowRecord(time, stamp) ==
    [win |-> winIdx, time |-> time, endtime |-> time + process_len * TicksPerSec,
     tStart_hv |-> stamp]

\* one iteration of run_HV's loop in which nothing raises (lines 58-118)
RunHV_Window ==
    /\ prog = "hv" /\ pc = "run_HV" /\ winIdx <= Len(times)
    /\ LET time == times[winIdx]
           stamp == StampOf(time)
           d1 == AfterHv(disk, fileIdx, winIdx, stamp)
       IN  /\ params' = WindowParams(time)
           /\ disk' = IF want_rotation THEN AfterRotate(d1, fileIdx, winIdx, stamp) ELSE d1
           /\ windowsRun' = Append(windowsRun, WindowRecord(time, stamp))
    /\ winIdx' = winIdx + 1
    /\ UNCHANGED <<prog, dasVars, maVars, rfVars, process_len, want_rotation, listing, files, fileIdx,
                   node_ID, pc, stdout, attempted, st, times>>

\* the -hv pass leaves no output (the tool failed): os.renames of line 105 raises,
\* run_HV is left, except: continue
RunHV_HvRaises ==
    /\ prog = "hv" /\ pc = "run_HV" /\ winIdx <= Len(times)
    /\ RenameRaises(disk, ToolName(node_ID, st.station, "hv"))
    /\ params' = WindowParams(times[winIdx])
    /\ pc' = "main"
    /\ fileIdx' = fileIdx + 1
    /\ UNCHANGED <<prog, dasVars, maVars, rfVars, process_len, want_rotation, listing, files,
                   node_ID, stdout, attempted, st, times, winIdx, disk, windowsRun>>

\* the -hv pass succeeded and the -rotate pass leaves no output: line 116 raises
RunHV_RotateRaises ==
    /\ prog = "hv" /\ pc = "run_HV" /\ winIdx <= Len(times)
    /\ want_rotation
    /\ LET stamp == StampOf(times[winIdx])
           d1 == AfterHv(disk, fileIdx, winIdx, stamp)
       IN  /\ RenameRaises(d1, ToolName(node_ID, st.station, "hv"))
           /\ disk' = d1
    /\ params' = WindowParams(times[winIdx])
    /\ pc' = "main"
    /\ fileIdx' = fileIdx + 1
    /\ UNCHANGED <<prog, dasVars, maVars, rfVars, process_len, want_rotation, listing, files,
                   node_ID, stdout, attempted, st, times, winIdx, windowsRun>>

\* run_HV's loop is exhausted: run_HV returns and the top-level loop goes on
RunHV_Return ==
    /\ prog = "hv" /\ pc = "run_HV" /\ winIdx > Len(times)
    /\ pc' = "main"
    /\ fileIdx' = fileIdx + 1
    /\ UNCHANGED <<prog, dasVars, maVars, rfVars, process_len, want_rotation, listing, files,
                   node_ID, stdout, attempted, st, times, winIdx, params, disk, windowsRun>>

\* line 277
PrintJobDone ==
    /\ prog = "hv" /\ pc = "main" /\ fileIdx > Len(files)
    /\ stdout' = Append(stdout, "Job Done")
    /\ pc' = "done"
    /\ UNCHANGED <<prog, dasVars, maVars, rfVars, process_len, want_rotation, listing, files, fileIdx,
                   node_ID, attempted, st, times, winIdx, params, disk, windowsRun>>

(***************************************************************************)
(* Actions of apply_mapping                                                *)
(***************************************************************************)
\* lines 10-12 for a file of one row: tmp[:,0] raises and apply_mapping is left
LoadSegments_Raises ==
    /\ prog = "das" /\ dpc = "load"
    /\ ColumnIndexRaises(np_loadtxt(segfiles, GoodSegments))
    /\ loaded_from' = GoodSegments
    /\ dpc' = "raised"
    /\ UNCHANGED <<prog, hvVars, maVars, rfVars, segments_filename, segfiles, segment,
                   channels_dd_original, i, icount, tie_indices, tie_distances, tie_lat,
                   tie_lon, mapped_ranges, slices, da2>>

\* lines 10-28
LoadSegments ==
    /\ prog = "das" /\ dpc = "load"
    /\ ~ColumnIndexRaises(np_loadtxt(segfiles, GoodSegments))
    /\ loaded_from' = GoodSegments
    /\ segment' = np_loadtxt(segfiles, GoodSegments).rows
    /\ icount' = 0
    /\ tie_indices' = <<>>
    /\ tie_distances' = <<>>
    /\ tie_lat' = <<>>
    /\ tie_lon' = <<>>
    /\ mapped_ranges' = <<>>
    /\ i' = 0
    /\ dpc' = "ties"
    /\ UNCHANGED <<prog, hvVars, maVars, rfVars, segments_filename, segfiles, channels_dd_original,
                   slices, da2>>

\* one iteration of the loop of lines 31-57; the loop ends after the last segment
TieLoopStep ==
    /\ prog = "das" /\ dpc = "ties" /\ i < Len(segment)
    /\ LET row == segment[i + 1]
           i1 == np_argmin_abs(channels_dd_original, row.d1)
           i2 == np_argmin_abs(channels_dd_original, row.d2)
           nchan == i2 - i1
           count1 == icount + nchan
           last == ~(i < Len(segment) - 1)
           gap == ~last /\ DistanceGap(segment, i)
           extra == last \/ gap
       IN  /\ tie_indices' = tie_indices \o <<icount>> \o (IF extra THEN <<count1>> ELSE <<>>)
           /\ tie_distances' = tie_distances \o <<row.d1>> \o (IF extra THEN <<row.d2>> ELSE <<>>)
           /\ tie_lat' = tie_lat \o <<row.y1>> \o (IF extra THEN <<row.y2>> ELSE <<>>)
           /\ tie_lon' = tie_lon \o <<row.x1>> \o (IF extra THEN <<row.x2>> ELSE <<>>)
           /\ icount' = IF gap THEN count1 + 1 ELSE count1
           /\ mapped_ranges' = Append(mapped_ranges, <<i1, i2>>)
           /\ IF last THEN i' = 0 /\ dpc' = "stitch" ELSE i' = i + 1 /\ dpc' = dpc
    /\ UNCHANGED <<prog, hvVars, maVars, rfVars, segments_filename, segfiles, loaded_from, segment,
                   channels_dd_original, slices, da2>>

\* one iteration of the loop of lines 60-75
StitchLoopStep ==
    /\ prog = "das" /\ dpc = "stitch" /\ i < Len(mapped_ranges)
    /\ LET i0 == mapped_ranges[i + 1][1]
           chunk == PySlice(Len(channels_dd_original), i0, SliceUpper(mapped_ranges, i))
       IN  /\ slices' = Append(slices, chunk)
           /\ da2' = IF i = 0 THEN chunk ELSE da2 \o chunk
    /\ IF i + 1 < Len(mapped_ranges) THEN i' = i + 1 /\ dpc' = dpc ELSE i' = i /\ dpc' = "coords"
    /\ UNCHANGED <<prog, hvVars, maVars, rfVars, segments_filename, segfiles, loaded_from, segment,
                   channels_dd_original, icount, tie_indices, tie_distances, tie_lat,
                   tie_lon, mapped_ranges>>

\* lines 78-101: the ties become the coordinates of da2, which is returned
AssignCoords ==
    /\ prog = "das" /\ dpc = "coords"
    /\ dpc' = "done"
    /\ UNCHANGED <<prog, hvVars, maVars, rfVars, segments_filename, segfiles, loaded_from, segment,
                   channels_dd_original, i, icount, tie_indices, tie_distances, tie_lat,
                   tie_lon, mapped_ranges, slices, da2>>

(***************************************************************************)
(* Actions of functions_MA.py                                              *)
(***************************************************************************)
\* a call roof_edges2D(mult, Lat, Lon)
Call_roof_edges2D ==
    /\ prog = "roof"
    /\ \E a \in RoofArgs \ DOMAIN edges_of :
          edges_of' = [b \in DOMAIN edges_of \cup {a} |->
                         IF b = a THEN roof_edges2D(a.mult, a.Lat, a.Lon) ELSE edges_of[b]]
    /\ UNCHANGED <<prog, hvVars, dasVars, rfVars, ax, axHist>>

\* a call set_axes_equal(ax)
Call_set_axes_equal ==
    /\ prog = "axes" /\ Len(axHist) <= MaxApply
    /\ ~Singular(set_axes_equal(ax).xlim) /\ ~Singular(set_axes_equal(ax).ylim)
    /\ ax' = set_axes_equal(ax)
    /\ axHist' = Append(axHist, ax')
    /\ UNCHANGED <<prog, hvVars, dasVars, rfVars, edges_of>>

(***************************************************************************)
(* Actions of read_files                                                   *)
(***************************************************************************)
\* an iteration of the loop of lines 236-250 in which nothing raises
ReadFiles_Append ==
    /\ prog = "rf" /\ rf_pc = "loop" /\ rf_k < Len(rf_listing)
    /\ ~SetItemRaises(rf_listing[rf_k + 1])
    /\ rf_files' = Append(rf_files, basefile(rf_listing[rf_k + 1]))
    /\ rf_k' = rf_k + 1
    /\ UNCHANGED <<prog, hvVars, dasVars, maVars, rf_listing, rf_tracebacks, rf_pc,
                   rf_result>>

\* an iteration in which l[13] = '*' raises: lines 247-250 print and continue
ReadFiles_Except ==
    /\ prog = "rf" /\ rf_pc = "loop" /\ rf_k < Len(rf_listing)
    /\ SetItemRaises(rf_listing[rf_k + 1])
    /\ rf_tracebacks' = Append(rf_tracebacks, rf_listing[rf_k + 1])
    /\ rf_k' = rf_k + 1
    /\ UNCHANGED <<prog, hvVars, dasVars, maVars, rf_listing, rf_files, rf_pc,
                   rf_result>>

\* the loop is exhausted: lines 252-253
ReadFiles_Return ==
    /\ prog = "rf" /\ rf_pc = "loop" /\ rf_k = Len(rf_listing)
    /\ rf_result' = np_unique(SeqElems(rf_files))
    /\ rf_pc' = "returned"
    /\ UNCHANGED <<prog, hvVars, dasVars, maVars, rf_listing, rf_k, rf_files,
                   rf_tracebacks>>

Next ==
    \/ ReadFiles_Append
    \/ ReadFiles_Except
    \/ ReadFiles_Return
    \/ Call_roof_edges2D
    \/ Call_set_axes_equal
    \/ LoadSegments_Raises
    \/ LoadSegments
    \/ TieLoopStep
    \/ StitchLoopStep
    \/ AssignCoords
    \/ ForFile_NodeIdRaises
    \/ ForFile_ReadRaises
    \/ ForFile_RunHV
    \/ RunHV_Window
    \/ RunHV_HvRaises
    \/ RunHV_RotateRaises
    \/ RunHV_Return
    \/ PrintJobDone

Spec == Init /\ [][Next]_vars

(***************************************************************************)
(* Claims about functions_MA.py                                            *)
(***************************************************************************)
\* the survey vertices in the order N, E_1, E_2, W, S, E_5, E_6, E, in millimetres
SurveyVertices ==
    << <<681443103, 248954576>>, <<681429922, 248934161>>, <<681431376, 248912610>>,
       <<681426233, 248895830>>, <<681447497, 248889417>>, <<681460536, 248909601>>,
       <<681459040, 248927087>>, <<681462783, 248942503>> >>

\* C9: every call roof_edges2D(mult, Lat, Lon) returns, in the order N, E_1, E_2, W,
\* S, E_5, E_6, E, each survey vertex (x, y) as ((x - (681437.8 - Lon)) * mult,
\* (y - (248919.2 - Lat)) * mult); with mult = 1 and the origin (248919.2, 681437.8)
\* the vertices are returned unchanged, the first being (681443.103, 248954.576);
\* with Lat = Lon = 0 every coordinate for mult = 2 is twice the one for mult = 1.
C9_RoofEdges ==
    prog = "roof" =>
        /\ \A a \in DOMAIN edges_of :
              /\ Len(edges_of[a]) = 8
              /\ \A k \in 1..8 :
                    edges_of[a][k] =
                        <<(SurveyVertices[k][1] - (681437800 - a.Lon)) * a.mult,
                          (SurveyVertices[k][2] - (248919200 - a.Lat)) * a.mult>>
              /\ (a.mult = 1 /\ a.Lat = 248919200 /\ a.Lon = 681437800) =>
                    /\ edges_of[a] = SurveyVertices
                    /\ edges_of[a][1] = <<681443103, 248954576>>
        /\ \A a, b \in DOMAIN edges_of :
              (a.mult = 2 /\ b.mult = 1 /\ a.Lat = 0 /\ a.Lon = 0 /\ b.Lat = 0 /\ b.Lon = 0) =>
                  \A k \in 1..8 : /\ edges_of[a][k][1] = 2 * edges_of[b][k][1]
                                   /\ edges_of[a][k][2] = 2 * edges_of[b][k][2]

\* the calls with the hard-coded origin and with mult 1 and 2 at the default origin
\* have been made
C9_Witness ==
    /\ prog = "roof"
    /\ [mult |-> 1, Lat |-> 248919200, Lon |-> 681437800] \in DOMAIN edges_of
    /\ [mult |-> 1, Lat |-> 0, Lon |-> 0] \in DOMAIN edges_of
    /\ [mult |-> 2, Lat |-> 0, Lon |-> 0] \in DOMAIN edges_of

\* C8 (as claimed): for any initial limits, the limits after two applications of
\* set_axes_equal are those after one.
C8_Idempotent ==
    (prog = "axes" /\ Len(axHist) >= 3) => axHist[3] = axHist[2]

Range(lim) == Abs(lim[2] - lim[1])

\* no operation of set_axes_equal(a) rounds: its differences, sums and new limits
\* are floating-point numbers
ExactOn(a) ==
    LET r == Half(Max(Range(a.xlim), Range(a.ylim)))
        xm == Half(a.xlim[1] + a.xlim[2])
        ym == Half(a.ylim[1] + a.ylim[2])
    IN  \A v \in {a.xlim[2] - a.xlim[1], a.xlim[1] + a.xlim[2],
                   a.ylim[2] - a.ylim[1], a.ylim[1] + a.ylim[2],
                   xm - r, xm + r, ym - r, ym + r} : fl(v) = v

\* C8 (amended): when no operation of the first application rounds, the limits after
\* two applications are those after one; after one application both ranges are the
\* larger original range, both midpoints are the original ones and zlim is untouched.
C8_IdempotentWhenExact ==
    (prog = "axes" /\ Len(axHist) >= 2 /\ ExactOn(axHist[1])) =>
        /\ Range(axHist[2].xlim) = Max(Range(axHist[1].xlim), Range(axHist[1].ylim))
        /\ Range(axHist[2].ylim) = Max(Range(axHist[1].xlim), Range(axHist[1].ylim))
        /\ axHist[2].xlim[1] + axHist[2].xlim[2] = axHist[1].xlim[1] + axHist[1].xlim[2]
        /\ axHist[2].ylim[1] + axHist[2].ylim[2] = axHist[1].ylim[1] + axHist[1].ylim[2]
        /\ axHist[2].zlim = axHist[1].zlim
        /\ Len(axHist) >= 3 => axHist[3] = axHist[2]

\* set_axes_equal was applied twice to an axis of unequal ranges, the first time
\* without rounding
C8_Witness ==
    /\ prog = "axes" /\ Len(axHist) >= 3
    /\ ExactOn(axHist[1])
    /\ Range(axHist[1].xlim) # Range(axHist[1].ylim)
    /\ axHist[2] # axHist[1]

(***************************************************************************)
(* Claims about apply_mapping                                              *)
(***************************************************************************)
\* apply_mapping has returned or raised
DasEnded == prog = "das" /\ dpc \in {"done", "raised"}

\* the segment file named good_segments.txt
GoodTable == segfiles[GoodSegments]

\* the number of adjacent pairs of rows of table t with a distance gap
Gaps(t) == Cardinality({k \in 1..(Len(t) - 1) : t[k].d2 # t[k + 1].d1})

\* C3 (as claimed): for a segment file of n >= 1 rows of which g adjacent pairs have
\* a distance gap, apply_mapping produces exactly n + g + 1 tie points (4 for three
\* rows without a gap, 6 for three rows with a gap after each).
C3_TieCount ==
    DasEnded => /\ dpc = "done"
                /\ Len(tie_indices) = Len(GoodTable) + Gaps(GoodTable) + 1
                /\ Len(tie_distances) = Len(tie_indices)
                /\ Len(tie_lat) = Len(tie_indices)
                /\ Len(tie_lon) = Len(tie_indices)

\* the part of C3 the code keeps: the count is as claimed once the file is read
C3_TieCountWhenRead ==
    (prog = "das" /\ dpc \in {"stitch", "coords", "done"}) =>
        Len(tie_indices) = Len(segment) + Gaps(segment) + 1

\* the set of raw channels of a slice
ChannelsOf(chunk) == {chunk[k] : k \in 1..Len(chunk)}

\* the slice of range k (from 1) has an inclusive upper bound
Inclusive(ranges, k) == k = Len(ranges) \/ ranges[k][2] # ranges[k + 1][1]

\* the slices extracted so far are as C4 says
SlicesAsClaimed ==
    \A k \in 1..Len(slices) :
        LET i0 == mapped_ranges[k][1]
            i1 == mapped_ranges[k][2]
        IN  IF Inclusive(mapped_ranges, k)
            THEN ChannelsOf(slices[k]) = i0..i1
            ELSE ChannelsOf(slices[k]) = i0..(i1 - 1)

\* C4 (as claimed): the slice of the last range [i0, i1], and of a range whose upper
\* bound differs from the next lower bound, holds the channels i0..i1; the slice of a
\* range whose upper bound equals the next lower bound holds i0..i1-1; a single
\* segment that maps to [10, 50] contributes 41 channels.
C4_RangeStitching ==
    DasEnded => /\ dpc = "done"
                /\ Len(slices) = Len(GoodTable)
                /\ SlicesAsClaimed
                /\ (GoodTable = LongTable /\ channels_dd_original = LongCoords) =>
                      mapped_ranges = <<(<<10, 50>>)>> /\ Len(da2) = 41

\* the part of C4 the code keeps: every slice it extracts is as claimed
C4_SlicesWhenRead == prog = "das" => SlicesAsClaimed

\* C5 (as claimed): the file read is the one segments_filename names, which is
\* good_segments.txt only when no other name is given.
C5_FilenameGoverns ==
    (prog = "das" /\ dpc # "load") => loaded_from = segments_filename

StrictlyIncreasing(s) == \A k \in 1..(Len(s) - 1) : s[k] < s[k + 1]

NonDecreasing(s) == \A k \in 1..(Len(s) - 1) : s[k] <= s[k + 1]

\* rows listed in increasing along-fiber distance: d1[k] <= d2[k] <= d1[k+1]
RowsInDistanceOrder(t) ==
    /\ \A k \in 1..Len(t) : t[k].d1 <= t[k].d2
    /\ \A k \in 1..(Len(t) - 1) : t[k].d2 <= t[k + 1].d1

\* C6 (as claimed): for rows in increasing distance and an increasing native
\* coordinate, each tie index is greater than the one before it.
C6_TiesAscending ==
    (/\ prog = "das" /\ dpc \in {"ties", "stitch", "coords", "done"}
     /\ RowsInDistanceOrder(segment)
     /\ StrictlyIncreasing(channels_dd_original)) => StrictlyIncreasing(tie_indices)

\* the part of C6 the code keeps: no tie index is less than the one before it
C6_TiesNonDecreasing ==
    (/\ prog = "das" /\ dpc \in {"ties", "stitch", "coords", "done"}
     /\ RowsInDistanceOrder(segment)
     /\ StrictlyIncreasing(channels_dd_original)) => NonDecreasing(tie_indices)

\* C10 (as claimed): when i1 <= i2 for every segment, the last tie index is the
\* number of channels of the stitched array minus 1, and every tie index is a
\* channel of the stitched array.
C10_TiesInsideStitchedAxis ==
    (/\ prog = "das" /\ dpc = "done"
     /\ \A k \in 1..Len(mapped_ranges) : mapped_ranges[k][1] <= mapped_ranges[k][2]) =>
        /\ tie_indices[Len(tie_indices)] = Len(da2) - 1
        /\ \A k \in 1..Len(tie_indices) : tie_indices[k] \in 0..(Len(da2) - 1)

(***************************************************************************)
(* Claims about read_files                                                 *)
(***************************************************************************)
\* a file name of at least 14 characters with '*' in place of its character at index 13
Wildcarded(f) == [k \in 1..Len(f) |-> IF k = 14 THEN "*" ELSE f[k]]

LongNames(names) == {f \in names : Len(f) >= 14}

\* C11: read_files returns the sorted, duplicate-free list of the patterns got by
\* putting '*' at index 13 of every listed file name of length >= 14 (names that
\* differ only there give one pattern); a name too short to have index 13 is
\* skipped and the names listed after it are still enumerated.
C11_ReadFiles ==
    (prog = "rf" /\ rf_pc = "returned") =>
        /\ SeqElems(rf_result) = {Wildcarded(f) : f \in LongNames(SeqElems(rf_listing))}
        /\ \A k \in 1..(Len(rf_result) - 1) : LexLess(rf_result[k], rf_result[k + 1])
        /\ rf_k = Len(rf_listing)
        /\ SeqElems(rf_tracebacks) = SeqElems(rf_listing) \ LongNames(SeqElems(rf_listing))
        /\ rf_result = read_files(SeqElems(rf_listing))

\* a call has returned two patterns from a listing whose first name is too short
\* and in which two names differ only at index 13
C11_Witness ==
    /\ prog = "rf" /\ rf_pc = "returned"
    /\ Len(rf_listing) >= 4
    /\ Len(rf_listing[1]) < 14
    /\ \E a, b \in SeqElems(rf_listing) : a # b /\ Len(a) >= 14 /\ Len(b) >= 14
                                          /\ Wildcarded(a) = Wildcarded(b)
    /\ Len(rf_result) >= 2
    /\ Len(rf_result) < Cardinality(LongNames(SeqElems(rf_listing)))

(***************************************************************************)
(* Claims about Auto_process_HV.py                                         *)
(***************************************************************************)
HvEnded == prog = "hv" /\ pc \in {"done", "crashed"}

\* C1 (as claimed): whatever is raised while a pattern is processed, when the driver
\* has ended it has attempted every discovered pattern exactly once, in list order,
\* and has printed 'Job Done'.
C1_BatchContinuation ==
    HvEnded => /\ attempted = files
               /\ stdout = <<"Job Done">>

\* the part of C1 the code keeps: the patterns attempted so far are a prefix of files
C1_AttemptedIsPrefix ==
    prog = "hv" => /\ Len(attempted) <= Len(files)
                   /\ attempted = SubSeq(files, 1, Len(attempted))

StepTicks == process_len * TicksPerSec

\* C2: in a run_HV call on a stream with end > start, the number n of windows is
\* ceil((end - start) / process_len), that is (n - 1) * p < end - start <= n * p;
\* the windows are run in order, the k-th (from 0) from start + k * p to
\* start + (k + 1) * p; a stream of exactly 7200 s with p = 3600 has the two
\* windows starting at start and start + 3600 s.
C2_WindowStepping ==
    (prog = "hv" /\ pc = "run_HV" /\ st.end > st.start) =>
        /\ (Len(times) - 1) * StepTicks < st.end - st.start
        /\ st.end - st.start <= Len(times) * StepTicks
        /\ Len(windowsRun) = winIdx - 1
        /\ Len(windowsRun) <= Len(times)
        /\ \A k \in 1..Len(windowsRun) :
              /\ windowsRun[k].time = st.start + (k - 1) * StepTicks
              /\ windowsRun[k].endtime = st.start + k * StepTicks
        /\ (st.end - st.start = 7200 * TicksPerSec /\ process_len = 3600) =>
              times = <<st.start, st.start + 3600 * TicksPerSec>>

\* a call whose last window is a partial one has run all its windows
C2_Witness ==
    /\ prog = "hv" /\ pc = "run_HV"
    /\ (st.end - st.start) % StepTicks # 0
    /\ Len(times) >= 2
    /\ Len(windowsRun) = Len(times)

\* C7: within one run_HV call every two distinct completed windows have distinct
\* stamped names, and the .hv and .log file (and the .hv.grid file of the rotation
\* pass) of every completed window is in the output folder with that window's
\* content: no later window overwrote it.
C7_WindowFilesKept ==
    (prog = "hv" /\ pc = "run_HV") =>
        /\ \A j, k \in 1..Len(windowsRun) :
              j # k => windowsRun[j].tStart_hv # windowsRun[k].tStart_hv
        /\ \A k \in 1..Len(windowsRun) :
              LET hv == OutName(node_ID, st.station, windowsRun[k].tStart_hv, "hv")
                  log == OutName(node_ID, st.station, windowsRun[k].tStart_hv, "log")
                  grid == OutName(node_ID, st.station, windowsRun[k].tStart_hv, "hv.grid")
              IN  /\ hv \in DOMAIN disk /\ disk[hv] = Content(fileIdx, k, "hv")
                  /\ log \in DOMAIN disk /\ disk[log] = Content(fileIdx, k, "log")
                  /\ want_rotation =>
                        grid \in DOMAIN disk /\ disk[grid] = Content(fileIdx, k, "grid")

\* a call with the rotation pass has completed two windows an hour apart
C7_Witness ==
    /\ prog = "hv" /\ pc = "run_HV" /\ want_rotation
    /\ Len(windowsRun) = 2
    /\ windowsRun[2].time - windowsRun[1].time = 3600 * TicksPerSec

====
